---- MODULE Spec2Model ----
(***************************************************************************)
(* vitest-bdd: the runtime executor (src/src/runtime.ts: __given, __when,  *)
(* __it) run by a host test runner, and the call-site locator of the       *)
(* compile-time transform (src/src/transform.ts).                          *)
(***************************************************************************)
EXTENDS Naturals, Sequences, FiniteSets, TLC

\* Largest number of registration calls (__given/__when/__it) in a test file.
MaxNodes == 5

\* Largest number of syntax nodes (calls and blocks) in a source file handed
\* to the transform.
MaxAst == 3

\* Largest number of uses of `$` in the modifier of a legacy when.
MaxOps == 3

\* The most arguments a given/when/it call is written with.
MaxArgs == 3

Range(s) == {s[i] : i \in DOMAIN s}

Last(s) == s[Len(s)]

RECURSIVE SeqsUpTo(_, _)
SeqsUpTo(S, n) ==
    IF n = 0 THEN {<<>>}
    ELSE SeqsUpTo(S, n - 1) \cup {Append(q, x) : q \in SeqsUpTo(S, n - 1), x \in S}

(***************************************************************************)
(* The test file: a tree of registration calls.  Node i is the i-th call   *)
(* in source order; parent 0 is the top level of the file.  A call passes  *)
(* the context bound by its enclosing callback, so __when and __it occur   *)
(* only inside the callback of a __given or __when.                        *)
(***************************************************************************)

\* DescribeFn / TestFn: the default primitive, or its .skip / .only variant.
Modes == {"run", "skip", "only"}

\* GivenConfig (runtime.ts:14-17): both factories are required members.
GivenConfigs == {{"inputs", "subject"}}

\* WhenConfig: modifier?, perform?
WhenConfigs == SUBSET {"modifier", "perform"}

Node(k, p, m, c) == [kind |-> k, parent |-> p, mode |-> m, config |-> c]

\* The callbacks whose body is still open at node n of p: n itself when it
\* takes a callback that registers calls, and its ancestors up to the file (0).
RECURSIVE Open(_, _)
Open(p, n) ==
    IF n = 0 THEN {0}
    ELSE (IF p[n].kind = "it" THEN {} ELSE {n}) \cup Open(p, p[n].parent)

\* Where the call after the calls of p can be written, nodes being numbered in
\* source order.  The files enumerated leave no given/when callback empty: the
\* call after a given or when is the first call of its callback.
Enclosing(p) ==
    IF p = <<>> THEN {0}
    ELSE IF p[Len(p)].kind = "it" THEN Open(p, Len(p)) ELSE {Len(p)}

\* The calls that may follow the calls of p in a file whose calls use the
\* modes ms and whose whens take the configs wcs.
NextNodes(p, ms, wcs) ==
    {Node("given", q, m, c) : q \in Enclosing(p), m \in ms, c \in GivenConfigs}
    \cup {Node("when", q, m, c) : q \in Enclosing(p) \ {0}, m \in ms, c \in wcs}
    \cup {Node("it", q, m, {}) : q \in Enclosing(p) \ {0}, m \in ms}

RECURSIVE CallsOfSize(_, _, _)
CallsOfSize(n, ms, wcs) ==
    IF n = 0 THEN {<<>>}
    ELSE UNION {{Append(p, nd) : nd \in NextNodes(p, ms, wcs)} : p \in CallsOfSize(n - 1, ms, wcs)}

EndsWithIt(p) == p[Len(p)].kind = "it"

\* Every file of at most max calls that uses the default primitives.
Files(max) == {p \in UNION {CallsOfSize(n, {"run"}, WhenConfigs) : n \in 1..max} : EndsWithIt(p)}

\* File p with the primitive ms[n] passed to its n-th call.
WithModes(p, ms) == [n \in DOMAIN p |-> [p[n] EXCEPT !.mode = ms[n]]]

\* Every file of at most max calls, each call with any primitive, whose whens
\* supply both a modifier and a perform.
ModeFiles(max) ==
    UNION {{WithModes(p, ms) : ms \in [DOMAIN p -> Modes]} :
            p \in {q \in UNION {CallsOfSize(n, {"run"}, {{"modifier", "perform"}}) :
                                 n \in 1..max} : EndsWithIt(q)}}

\* The configs the transform builds for a given: a factory is a member only
\* if the callback assigns its slot (transform.ts:263-271).
BuiltGivenConfigs == SUBSET {"inputs", "subject"}

\* File p with the config cs[n] passed to its n-th call where it is a given.
WithConfigs(p, cs) ==
    [n \in DOMAIN p |-> IF p[n].kind = "given" THEN [p[n] EXCEPT !.config = cs[n]] ELSE p[n]]

\* Every file of at most max calls whose givens have any of the configs the
\* transform builds.
PartialFiles(max) ==
    UNION {{WithConfigs(p, cs) : cs \in [DOMAIN p -> BuiltGivenConfigs]} : p \in Files(max)}

(***************************************************************************)
(* The source file handed to the transform: the calls and the blocks       *)
(* (control-flow constructs, function bodies) of its syntax tree, numbered *)
(* in source order; parent 0 is the file.  A node under a call sits in its *)
(* callback ("callback") or in another of its arguments ("arg").  Every    *)
(* call of the files enumerated passes a function with a block body.       *)
(***************************************************************************)

\* The callee of a call: <<identifier, property>>, "" when the callee is a
\* plain identifier.
Callees ==
    {<<"given", "">>, <<"when", "">>, <<"it", "">>, <<"it", "skip">>, <<"it", "each">>,
     <<"describe", "">>}

\* A call carries the shape of its callback argument: "block" (an inline
\* function with a block body), "expr" (an inline arrow function whose body is
\* an expression), "none" (no inline function: a variable, a spread, nothing).
\* A simple statement ("stmt") is named by its form.
AstNode(ty, c, q, sl) ==
    [type |-> ty, name |-> c[1], prop |-> c[2], parent |-> q, slot |-> sl,
     cb |-> IF ty = "call" THEN "block" ELSE "none"]

\* n and the nodes that contain it, and the file (0).
RECURSIVE Ancestors(_, _)
Ancestors(a, n) == IF n = 0 THEN {0} ELSE {n} \cup Ancestors(a, a[n].parent)

\* Where a node can sit in q.  The files enumerated put nodes into the
\* callback of a call and, for a given, into its other arguments too.
Slots(a, q) ==
    IF q # 0 /\ a[q].type = "call"
    THEN (IF a[q].name = "given" THEN {"arg", "callback"} ELSE {"callback"})
    ELSE {"stmt"}

NextAst(a) ==
    UNION {{AstNode("call", c, q, sl) : c \in Callees, sl \in Slots(a, q)}
           \cup {AstNode("block", <<"", "">>, q, sl) : sl \in Slots(a, q)} :
           q \in Ancestors(a, Len(a))}

RECURSIVE AstsUpTo(_)
AstsUpTo(n) ==
    IF n = 0 THEN {<<>>}
    ELSE LET S == AstsUpTo(n - 1)
         IN  S \cup UNION {{Append(a, nd) : nd \in NextAst(a)} : a \in {b \in S : Len(b) = n - 1}}

\* The forms of simple statement the transform tells apart: `$inputs = e`,
\* `$subject = e`, `$inputs.p = e`, `$subject.m()`.
StmtForms == {"$inputs=", "$subject=", "$inputs.p=", "$subject.m()"}

Call(name, prop, cb) == [AstNode("call", <<name, prop>>, 0, "stmt") EXCEPT !.cb = cb]

Stmt(form) == AstNode("stmt", <<form, "">>, 0, "stmt")

Block == AstNode("block", <<"", "">>, 0, "stmt")

\* Whether other nodes are written inside node nd in the files enumerated
\* from templates: in a block, and in the callback of a given, a when or
\* another call that is not an it.
CanHold(nd) ==
    \/ nd.type = "block"
    \/ nd.type = "call" /\ nd.cb # "none"

Holders(a, n) == {q \in Ancestors(a, n) : q = 0 \/ CanHold(a[q])}

Place(t, a, q) ==
    [t EXCEPT !.parent = q,
              !.slot = IF q # 0 /\ a[q].type = "call" THEN "callback" ELSE "stmt"]

\* The files that add n nodes of the templates ts to one of the files starts,
\* each inside a node of the file.
RECURSIVE Grow(_, _, _)
Grow(n, starts, ts) ==
    IF n = 0 THEN starts
    ELSE UNION {{Append(a, Place(t, a, q)) : t \in ts, q \in Holders(a, Len(a)) \ {0}} :
                a \in Grow(n - 1, starts, ts)}

GrowUpTo(max, starts, ts) == UNION {Grow(n, starts, ts) : n \in 0..max}

\* Files that differ in the statements of their callbacks: a given with a
\* when in it, alone or after a statement at file level, and in them its,
\* blocks and simple statements.
StatementTemplates == {Call("it", "", "block"), Block} \cup {Stmt(f) : f \in StmtForms}

GivenWhen ==
    LET g == <<Place(Call("given", "", "block"), <<>>, 0)>>
    IN  Append(g, Place(Call("when", "", "block"), g, 1))

UseGivenWhen ==
    LET u == <<Place(Stmt("$subject.m()"), <<>>, 0)>>
        g == Append(u, Place(Call("given", "", "block"), u, 0))
    IN  Append(g, Place(Call("when", "", "block"), g, 2))

GivenGiven ==
    LET g == <<Place(Call("given", "", "block"), <<>>, 0)>>
    IN  Append(g, Place(Call("given", "", "block"), g, 1))

StatementFiles(max) ==
    [imports : {{}},
     nodes : GrowUpTo(max, {GivenWhen}, StatementTemplates)
             \cup GrowUpTo(max - 1, {UseGivenWhen, GivenGiven}, StatementTemplates)]
    \cup {[imports |-> {"given"}, nodes |-> GivenWhen]}

\* Files that differ in the shape of their calls: the callback written as a
\* block, as an expression or not inline, and the skip/only forms.
ShapeTemplates ==
    {Call("given", "", "block"), Call("given", "skip", "block"), Call("given", "skip", "expr"),
     Call("given", "only", "none"),
     Call("when", "", "block"), Call("when", "only", "block"), Call("when", "", "none"),
     Call("it", "", "block"), Call("it", "skip", "expr"), Call("it", "", "none")}

ShapeFiles(max) ==
    [imports : {{}, {"given"}},
     nodes : GrowUpTo(max, {<<Place(t, <<>>, 0)>> : t \in {u \in ShapeTemplates : u.name = "given"}},
                      ShapeTemplates)]

\* What a file imports by name: "given" (a named import binding `given`, the
\* legacy API), "runtime" (__given/__when/__it from the runtime module),
\* "vitest" (describe/test from the host).
ImportSets == {{}, {"given"}, {"runtime"}}

\* Every source file of at most max nodes, with each set of imports.
SourceFiles(max) == [imports : ImportSets, nodes : AstsUpTo(max)]

VARIABLES
    prog,       \* the test file under execution
    phase,      \* "collect": the host collects registrations; "run": it runs tests
    reg,        \* per call: "none", "pending" (registered, callback not yet run),
                \* "active" (callback running), "done"
    hostMode,   \* per call: the host primitive its registration was handed to
    stack,      \* callbacks being executed, innermost last; 0 is the file body
    ctxs,       \* per given/when: the RuntimeContext object its callback built
    exec,       \* per it: the state of the async closure handed to the test runner
    heap,       \* the input values and subjects the factories have produced
    inflight,   \* promises of perform / test functions not yet settled
    log,        \* per it: the calls its closure made, <<function kind, function,
                \* argument>>, and how they ended ("settled", "threw")
    sourceFile, \* the file transformBddSyntax was called on
    step,       \* where transformBddSyntax is: "idle", "start", "visit", "done"
    pending,    \* the visits collectBddCalls has still to make, next one first
    calls,      \* the BddCall records collected
    edited,     \* the calls whose text the transform has rewritten
    result,     \* what transformBddSyntax returned: "none" (not yet), "null", "code"
    edits,      \* per rewritten call: the edits recorded on it
    usedHelpers,        \* the runtime helpers named by the prepended import
    usedVitestImports,  \* the host primitives named by the prepended import
    pass,       \* 1: the file as written; 2: the code returned for it, transformed again
    uses,       \* legacy it: the uses of `$` its modifier has still to make
    lpc,        \* legacy it: "idle", "modifier", "getState", "perform",
                \* "testFn", "done", "failed" (the test rejected)
    testInputs, \* legacy it: the copy of the given's inputs
    stateCreated,   \* legacy it: createWorldState has been called
    worldState, \* legacy it: what createWorldState returned
    performFn,  \* legacy it: _performFn
    created,    \* legacy it: the calls of createWorldState, each with its inputs
    errors,     \* legacy it: the errors thrown, in order
    site,       \* one call handed to transformGiven / transformWhen / transformIt:
                \* its kind, its modifier and node.arguments
    emitted     \* the argument list of that call in the edited text

rvars == <<prog, phase, reg, hostMode, stack, ctxs, exec, heap, inflight, log>>

ovars == <<edits, usedHelpers, usedVitestImports>>

avars == <<site, emitted>>

tvars == <<sourceFile, step, pending, calls, edited, result, ovars, pass, avars>>

lvars == <<uses, lpc, testInputs, stateCreated, worldState, performFn, created, errors>>

vars == <<rvars, tvars, lvars>>

Nodes == DOMAIN prog

Its == {n \in Nodes : prog[n].kind = "it"}

Children(n) == {c \in Nodes : prog[c].parent = n}

Min(S) == CHOOSE x \in S : \A y \in S : x <= y

Max(S) == CHOOSE x \in S : \A y \in S : x >= y

\* n and the calls whose callbacks enclose it, innermost first.
RECURSIVE Path(_)
Path(n) == IF n = 0 THEN <<>> ELSE <<n>> \o Path(prog[n].parent)

\* The calls the callback of f (or the file body, 0) has not made yet.
Unmade(f) == {c \in Children(f) : reg[c] = "none"}

Made(f) == Children(f) \ Unmade(f)

\* The describe() call the running code is inside of, when the host has not
\* (yet) called the callback handed to it: the last call made by the
\* innermost running callback.
InDescribe(n) ==
    /\ stack # <<>>
    /\ Last(stack) = prog[n].parent
    /\ n = Max(Made(prog[n].parent))

CanCall(n) ==
    /\ phase = "collect"
    /\ stack # <<>>
    /\ Unmade(Last(stack)) # {}
    /\ n = Min(Unmade(Last(stack)))

NoCtx == [inputs |-> 0, subject |-> 0, modifiers |-> <<>>, performs |-> <<>>]

\* runtime.ts:34-39: the context a given builds.  A factory is named by the
\* given that supplied it (0: undefined).
GivenCtx(config, n) ==
    [inputs    |-> IF "inputs" \in config THEN n ELSE 0,
     subject   |-> IF "subject" \in config THEN n ELSE 0,
     modifiers |-> <<>>,
     performs  |-> <<>>]

WhenCtxPrepend(parentCtx, config, n) ==
    [inputs    |-> parentCtx.inputs,
     subject   |-> parentCtx.subject,
     modifiers |-> (IF "modifier" \in config THEN <<n>> ELSE <<>>) \o parentCtx.modifiers,
     performs  |-> (IF "perform" \in config THEN <<n>> ELSE <<>>) \o parentCtx.performs]

\* runtime.ts:52-57: the context a when derives from parentCtx.  A modifier or
\* perform function is named by the when that supplied it.
WhenCtx(parentCtx, config, n) ==
    [inputs    |-> parentCtx.inputs,
     subject   |-> parentCtx.subject,
     modifiers |-> parentCtx.modifiers \o (IF "modifier" \in config THEN <<n>> ELSE <<>>),
     performs  |-> parentCtx.performs \o (IF "perform" \in config THEN <<n>> ELSE <<>>)]

WhenCtxsPushParent(cs, n) ==
    LET q == prog[n].parent
        c == WhenCtx(cs[q], prog[n].config, n)
    IN  [cs EXCEPT ![q] = c, ![n] = c]

\* The context objects after the callback of when n has run: the new object
\* is bound to n, the object passed as parentCtx is only read.
WhenCtxs(cs, n) ==
    [cs EXCEPT ![n] = WhenCtx(cs[prog[n].parent], prog[n].config, n)]

DefaultPrimitive(n) == "run"

\* The primitive a registration is handed to: the describeFn / testRunner
\* argument.
PrimitiveOf(n) == prog[n].mode

ItClosureInvoked(n) == [pc |-> "start", i |-> 0, inputs |-> 0, subject |-> 0]

\* runtime.ts:68: __it only creates the closure and hands it to the runner.
ItClosure(n) == [pc |-> "registered", i |-> 0, inputs |-> 0, subject |-> 0]

NoExec == [pc |-> "none", i |-> 0, inputs |-> 0, subject |-> 0]

\* No single call is being rewritten.
NoSite == [kind |-> "none", modifier |-> "none", arguments |-> <<>>]
NotEmitted == [status |-> "none", arguments |-> <<>>]

\* transformBddSyntax called (at "start") on one of files.
\* No legacy test is executing.
LegacyIdle ==
    /\ uses = <<>>
    /\ lpc = "idle"
    /\ testInputs = "undefined"
    /\ stateCreated = FALSE
    /\ worldState = [builtFrom |-> "undefined"]
    /\ performFn = "undefined"
    /\ created = <<>>
    /\ errors = <<>>

TransformOn(files, at) ==
    /\ sourceFile \in files
    /\ step = at
    /\ pending = <<>>
    /\ calls = <<>>
    /\ edited = {}
    /\ result = "none"
    /\ edits = <<>>
    /\ usedHelpers = {}
    /\ usedVitestImports = {}
    /\ pass = 1
    /\ site = NoSite
    /\ emitted = NotEmitted

InitOn(files) ==
    /\ prog \in files
    /\ phase = "collect"
    /\ reg = [n \in DOMAIN prog |-> "none"]
    /\ hostMode = [n \in DOMAIN prog |-> "none"]
    /\ stack = <<0>>
    /\ ctxs = [n \in DOMAIN prog |-> NoCtx]
    /\ exec = [n \in DOMAIN prog |-> NoExec]
    /\ heap = <<>>
    /\ inflight = {}
    /\ log = [n \in DOMAIN prog |-> <<>>]
    /\ TransformOn({[imports |-> {}, nodes |-> <<>>]}, "idle")
    /\ LegacyIdle

Init == InitOn(Files(MaxNodes))

(***************************************************************************)
(* Registration (collection).                                              *)
(***************************************************************************)

\* __given(scenario, config, body, describeFn): describeFn(scenario, callback).
__given(n) ==
    /\ CanCall(n)
    /\ prog[n].kind = "given"
    /\ reg' = [reg EXCEPT ![n] = "pending"]
    /\ hostMode' = [hostMode EXCEPT ![n] = PrimitiveOf(n)]
    /\ UNCHANGED <<lvars, tvars, prog, phase, stack, ctxs, exec, heap, inflight, log>>

\* __when(scenario, config, body, parentCtx, describeFn): describeFn(scenario, callback).
__when(n) ==
    /\ CanCall(n)
    /\ prog[n].kind = "when"
    /\ reg' = [reg EXCEPT ![n] = "pending"]
    /\ hostMode' = [hostMode EXCEPT ![n] = PrimitiveOf(n)]
    /\ UNCHANGED <<lvars, tvars, prog, phase, stack, ctxs, exec, heap, inflight, log>>

\* __it(scenario, testFn, ctx, testRunner): testRunner(scenario, closure).
__it(n) ==
    /\ CanCall(n)
    /\ prog[n].kind = "it"
    /\ reg' = [reg EXCEPT ![n] = "done"]
    /\ hostMode' = [hostMode EXCEPT ![n] = PrimitiveOf(n)]
    /\ exec' = [exec EXCEPT ![n] = ItClosure(n)]
    /\ UNCHANGED <<lvars, tvars, prog, phase, stack, ctxs, heap, inflight, log>>

\* The host calls the callback handed to describe once, while it collects:
\* either inside describe() or after the code that called describe() has
\* returned to the host.
HostCalls(n) ==
    /\ phase = "collect"
    /\ reg[n] = "pending"
    /\ InDescribe(n) \/ stack = <<>>

\* runtime.ts:33-41: the callback __given hands to describeFn.
GivenCallback(n) ==
    /\ HostCalls(n)
    /\ prog[n].kind = "given"
    /\ ctxs' = [ctxs EXCEPT ![n] = GivenCtx(prog[n].config, n)]
    /\ reg' = [reg EXCEPT ![n] = "active"]
    /\ stack' = Append(stack, n)
    /\ UNCHANGED <<lvars, tvars, prog, phase, hostMode, exec, heap, inflight, log>>

\* runtime.ts:51-59: the callback __when hands to describeFn.
WhenCallback(n) ==
    /\ HostCalls(n)
    /\ prog[n].kind = "when"
    /\ ctxs' = WhenCtxs(ctxs, n)
    /\ reg' = [reg EXCEPT ![n] = "active"]
    /\ stack' = Append(stack, n)
    /\ UNCHANGED <<lvars, tvars, prog, phase, hostMode, exec, heap, inflight, log>>

\* The innermost callback (or the file body) has made all its calls and returns.
Return ==
    /\ phase = "collect"
    /\ stack # <<>>
    /\ Unmade(Last(stack)) = {}
    /\ stack' = SubSeq(stack, 1, Len(stack) - 1)
    /\ reg' = IF Last(stack) = 0 THEN reg ELSE [reg EXCEPT ![Last(stack)] = "done"]
    /\ UNCHANGED <<lvars, tvars, prog, phase, hostMode, ctxs, exec, heap, inflight, log>>

\* Collection is over: every callback has run.
StartRun ==
    /\ phase = "collect"
    /\ stack = <<>>
    /\ \A n \in Nodes : reg[n] = "done"
    /\ phase' = "run"
    /\ UNCHANGED <<lvars, tvars, prog, reg, hostMode, stack, ctxs, exec, heap, inflight, log>>

(***************************************************************************)
(* Execution: the async closure of __it (runtime.ts:68-78), called by the  *)
(* host.  Its context is the object bound by the enclosing callback.       *)
(***************************************************************************)

Ctx(t) == ctxs[prog[t].parent]

Pending(t) == exec[t].pc \in {"start", "mods", "performs", "awaitPerform", "awaitTestFn"}

Settled(t) == exec[t].pc \in {"fulfilled", "rejected"}

\* Host (vitest) semantics of skip and only: a test is not run when it or an
\* enclosing suite was registered with .skip, nor, when some registration of
\* the file used .only, unless it or an enclosing suite was registered with .only.
HostRuns(t) ==
    /\ \A k \in DOMAIN Path(t) : hostMode[Path(t)[k]] # "skip"
    /\ (\E n \in Nodes : hostMode[n] = "only")
          => \E k \in DOMAIN Path(t) : hostMode[Path(t)[k]] = "only"

\* The host takes the next registered test, in source order, once the promise
\* of the previous one has settled, and calls its closure or skips it.
HostNext ==
    /\ phase = "run"
    /\ \A u \in Its : ~Pending(u)
    /\ \E t \in Its :
        /\ exec[t].pc = "registered"
        /\ \A u \in Its : exec[u].pc = "registered" => t <= u
        /\ exec' = [exec EXCEPT ![t].pc = IF HostRuns(t) THEN "start" ELSE "skipped"]
    /\ UNCHANGED <<lvars, tvars, prog, phase, reg, hostMode, stack, ctxs, heap, inflight, log>>

InputsValueCached(t) ==
    IF \E o \in DOMAIN heap : heap[o].kind = "inputs"
    THEN CHOOSE o \in DOMAIN heap : heap[o].kind = "inputs"
    ELSE Len(heap) + 1

\* runtime.ts:69: the object `inputs` is bound to: what this call of the
\* factory returns, a new object.
InputsValue(t) == Len(heap) + 1

\* runtime.ts:70: the i-th modifier of the loop.
ModifierAt(c, i) == c.modifiers[i]

PerformAtReversed(c, i) == c.performs[Len(c.performs) + 1 - i]

\* runtime.ts:74: the i-th perform of the loop.
PerformAt(c, i) == c.performs[i]

AfterPerformCallNoAwait(e) == [e EXCEPT !.i = @ + 1]

\* runtime.ts:75: `await perform(subject)`: the closure waits for this promise.
AfterPerformCall(e) == [e EXCEPT !.pc = "awaitPerform"]

AfterTestFnCallNoAwait(e) == [e EXCEPT !.pc = "fulfilled"]

\* runtime.ts:77: `await testFn(subject)`.
AfterTestFnCall(e) == [e EXCEPT !.pc = "awaitTestFn"]

ThrownSwallowed(e) == [e EXCEPT !.pc = "fulfilled"]

\* runtime.ts:68-78: the closure catches nothing: an exception (or the
\* rejection of an awaited promise) rejects the promise of the closure.
Thrown(e) == [e EXCEPT !.pc = "rejected"]

Write(h, o, t) == [h EXCEPT ![o].writers = @ \cup {t}]

\* runtime.ts:69: const inputs = ctx.inputs().
ItInputs(t) ==
    /\ exec[t].pc = "start"
    /\ IF Ctx(t).inputs = 0
       THEN /\ exec' = [exec EXCEPT ![t] = Thrown(@)]
            /\ log' = [log EXCEPT ![t] = Append(@, <<"threw", 0, 0>>)]
            /\ UNCHANGED heap
       ELSE LET o == InputsValue(t) IN
            /\ heap' = IF o > Len(heap)
                       THEN Append(heap, [kind |-> "inputs", maker |-> t, writers |-> {}, from |-> 0])
                       ELSE heap
            /\ exec' = [exec EXCEPT ![t] = [pc |-> "mods", i |-> 1, inputs |-> o, subject |-> 0]]
            /\ log' = [log EXCEPT ![t] = Append(@, <<"inputs", Ctx(t).inputs, o>>)]
    /\ UNCHANGED <<lvars, tvars, prog, phase, reg, hostMode, stack, ctxs, inflight>>

\* runtime.ts:70-72: mod(inputs); the modifier may throw.
ItModifier(t, ok) ==
    /\ exec[t].pc = "mods"
    /\ exec[t].i <= Len(Ctx(t).modifiers)
    /\ heap' = Write(heap, exec[t].inputs, t)
    /\ log' = [log EXCEPT ![t] = @ \o <<<<"modifier", ModifierAt(Ctx(t), exec[t].i), exec[t].inputs>>>>
                                  \o (IF ok THEN <<>>
                                      ELSE <<<<"threw", ModifierAt(Ctx(t), exec[t].i), exec[t].inputs>>>>)]
    /\ exec' = [exec EXCEPT ![t] = IF ok THEN [@ EXCEPT !.i = @ + 1] ELSE Thrown(@)]
    /\ UNCHANGED <<lvars, tvars, prog, phase, reg, hostMode, stack, ctxs, inflight>>

\* runtime.ts:73: const subject = ctx.subject(inputs).
ItSubject(t) ==
    /\ exec[t].pc = "mods"
    /\ exec[t].i > Len(Ctx(t).modifiers)
    /\ IF Ctx(t).subject = 0
       THEN /\ exec' = [exec EXCEPT ![t] = Thrown(@)]
            /\ log' = [log EXCEPT ![t] = Append(@, <<"threw", 0, exec[t].inputs>>)]
            /\ UNCHANGED heap
       ELSE /\ heap' = Append(heap, [kind |-> "subject", maker |-> t, writers |-> {},
                                     from |-> exec[t].inputs])
            /\ exec' = [exec EXCEPT ![t] = [@ EXCEPT !.pc = "performs", !.i = 1,
                                                      !.subject = Len(heap) + 1]]
            /\ log' = [log EXCEPT ![t] = Append(@, <<"subject", Ctx(t).subject, exec[t].inputs>>)]
    /\ UNCHANGED <<lvars, tvars, prog, phase, reg, hostMode, stack, ctxs, inflight>>

\* runtime.ts:75: perform(subject) is called and returns its promise.
ItPerform(t) ==
    /\ exec[t].pc = "performs"
    /\ exec[t].i <= Len(Ctx(t).performs)
    /\ heap' = Write(heap, exec[t].subject, t)
    /\ log' = [log EXCEPT ![t] = Append(@, <<"perform", PerformAt(Ctx(t), exec[t].i), exec[t].subject>>)]
    /\ inflight' = inflight \cup {<<t, "perform", exec[t].i>>}
    /\ exec' = [exec EXCEPT ![t] = AfterPerformCall(@)]
    /\ UNCHANGED <<lvars, tvars, prog, phase, reg, hostMode, stack, ctxs>>

\* The promise of the k-th perform settles; a closure waiting for it resumes
\* with the next perform or, on a rejection, throws.
PerformSettles(t, k, ok) ==
    /\ <<t, "perform", k>> \in inflight
    /\ inflight' = inflight \ {<<t, "perform", k>>}
    /\ log' = [log EXCEPT ![t] = Append(@, <<IF ok THEN "settled" ELSE "threw",
                                               PerformAt(Ctx(t), k), exec[t].subject>>)]
    /\ exec' = IF exec[t].pc = "awaitPerform" /\ exec[t].i = k
               THEN [exec EXCEPT ![t] = IF ok THEN [@ EXCEPT !.pc = "performs", !.i = @ + 1]
                                              ELSE Thrown(@)]
               ELSE exec
    /\ UNCHANGED <<lvars, tvars, prog, phase, reg, hostMode, stack, ctxs, heap>>

\* runtime.ts:77: testFn(subject) is called and returns its promise (or value).
ItTestFn(t) ==
    /\ exec[t].pc = "performs"
    /\ exec[t].i > Len(Ctx(t).performs)
    /\ heap' = Write(heap, exec[t].subject, t)
    /\ log' = [log EXCEPT ![t] = Append(@, <<"testFn", t, exec[t].subject>>)]
    /\ inflight' = inflight \cup {<<t, "testFn", 0>>}
    /\ exec' = [exec EXCEPT ![t] = AfterTestFnCall(@)]
    /\ UNCHANGED <<lvars, tvars, prog, phase, reg, hostMode, stack, ctxs>>

\* The test function settles; the closure waiting for it returns or throws.
TestFnSettles(t, ok) ==
    /\ <<t, "testFn", 0>> \in inflight
    /\ inflight' = inflight \ {<<t, "testFn", 0>>}
    /\ log' = [log EXCEPT ![t] = Append(@, <<IF ok THEN "settled" ELSE "threw", t, exec[t].subject>>)]
    /\ exec' = IF exec[t].pc = "awaitTestFn"
               THEN [exec EXCEPT ![t].pc = IF ok THEN "fulfilled" ELSE "rejected"]
               ELSE exec
    /\ UNCHANGED <<lvars, tvars, prog, phase, reg, hostMode, stack, ctxs, heap>>

Next ==
    \/ \E n \in Nodes : __given(n)
    \/ \E n \in Nodes : __when(n)
    \/ \E n \in Nodes : __it(n)
    \/ \E n \in Nodes : GivenCallback(n)
    \/ \E n \in Nodes : WhenCallback(n)
    \/ Return
    \/ StartRun
    \/ HostNext
    \/ \E t \in Its : ItInputs(t)
    \/ \E t \in Its, ok \in BOOLEAN : ItModifier(t, ok)
    \/ \E t \in Its : ItSubject(t)
    \/ \E t \in Its : ItPerform(t)
    \/ \E t \in Its, k \in 1..MaxNodes, ok \in BOOLEAN : PerformSettles(t, k, ok)
    \/ \E t \in Its : ItTestFn(t)
    \/ \E t \in Its, ok \in BOOLEAN : TestFnSettles(t, ok)

Spec == Init /\ [][Next]_vars

\* The same program run on the files whose givens lack factories.
SpecPartial == InitOn(PartialFiles(MaxNodes - 1)) /\ [][Next]_vars

\* The same program run on the files that use .skip and .only.
SpecModes == InitOn(ModeFiles(MaxNodes - 1)) /\ [][Next]_vars

(***************************************************************************)
(* The transform (src/src/transform.ts): transformBddSyntax locates the    *)
(* given/when/it calls of a source file and rewrites them.                 *)
(***************************************************************************)

NoParse == [kind |-> "none", modifier |-> "none"]

BddNames == {"given", "when", "it"}

\* transform.ts:45-73: a call is a BDD call when its callee is the identifier
\* given/when/it, or that identifier followed by .skip or .only.
parseBddCall(node) ==
    IF node.prop = ""
    THEN IF node.name \in BddNames
         THEN [kind |-> node.name, modifier |-> "none"]
         ELSE NoParse
    ELSE IF node.name \in BddNames /\ node.prop \in {"skip", "only"}
         THEN [kind |-> node.name, modifier |-> node.prop]
         ELSE NoParse

AstNodes == DOMAIN sourceFile.nodes

\* ts.forEachChild: the children of node n (0: the file), in source order.
ChildrenOf(n) ==
    SelectSeq([i \in AstNodes |-> i], LAMBDA c : sourceFile.nodes[c].parent = n)

\* The calls visit(child, depth, insideGiven) that forEachChild makes on n.
Visits(n, depth, insideGiven) ==
    [k \in DOMAIN ChildrenOf(n) |->
        [node |-> ChildrenOf(n)[k], depth |-> depth, insideGiven |-> insideGiven]]

\* transform.ts:91: which recognized calls are collected.
Collects(parsed, insideGiven) == parsed.kind = "given" \/ insideGiven

BddCall(parsed, n, depth) ==
    [kind |-> parsed.kind, node |-> n, depth |-> depth, modifier |-> parsed.modifier]

\* transform.ts:413-428.
importsGiven(sf) == "given" \in sf.imports

\* transform.ts:437-439: a file that imports `given` is returned as it is.
OldApiReturn ==
    /\ step = "start"
    /\ importsGiven(sourceFile)
    /\ result' = "null"
    /\ step' = "done"
    /\ UNCHANGED <<avars, lvars, rvars, sourceFile, pending, calls, edited, ovars, pass>>

\* transform.ts:113-115: collectBddCalls visits the children of the file.
collectBddCalls ==
    /\ step = "start"
    /\ ~importsGiven(sourceFile)
    /\ pending' = Visits(0, 0, FALSE)
    /\ step' = "visit"
    /\ UNCHANGED <<avars, lvars, rvars, sourceFile, calls, edited, result, ovars, pass>>

\* transform.ts:85-111: visit(node, depth, insideGiven).
visit ==
    /\ step = "visit"
    /\ pending # <<>>
    /\ LET f == Head(pending)
           node == sourceFile.nodes[f.node]
           parsed == IF node.type = "call" THEN parseBddCall(node) ELSE NoParse
       IN  IF parsed # NoParse
           THEN /\ calls' = IF Collects(parsed, f.insideGiven)
                            THEN Append(calls, BddCall(parsed, f.node, f.depth))
                            ELSE calls
                /\ pending' = Visits(f.node, f.depth + 1,
                                     f.insideGiven \/ parsed.kind = "given")
                              \o Tail(pending)
           ELSE /\ calls' = calls
                /\ pending' = Visits(f.node, f.depth, f.insideGiven) \o Tail(pending)
    /\ UNCHANGED <<avars, lvars, rvars, sourceFile, step, edited, result, ovars, pass>>

\* transform.ts:441-444: no call collected.
NoCallsReturn ==
    /\ step = "visit"
    /\ pending = <<>>
    /\ calls = <<>>
    /\ result' = "null"
    /\ step' = "done"
    /\ UNCHANGED <<avars, lvars, rvars, sourceFile, pending, calls, edited, ovars, pass>>

\* The calls left in the order visit collected them: outer calls first.
CollectionOrder(cs) == cs

InsertByDepth(c, cs) ==
    SelectSeq(cs, LAMBDA e : e.depth >= c.depth) \o <<c>>
    \o SelectSeq(cs, LAMBDA e : e.depth < c.depth)

\* transform.ts:449: calls.sort((a, b) => b.depth - a.depth), a stable sort.
RECURSIVE SortByDepth(_)
SortByDepth(cs) ==
    IF cs = <<>> THEN <<>>
    ELSE InsertByDepth(Last(cs), SortByDepth(SubSeq(cs, 1, Len(cs) - 1)))

\* transform.ts:141-149, 155-162: the statements of the block that is the
\* body of the callback of call n, in source order.
DirectStatements(n) ==
    SelectSeq(ChildrenOf(n), LAMBDA c : sourceFile.nodes[c].slot = "callback")

IsStmt(n, form) == sourceFile.nodes[n].type = "stmt" /\ sourceFile.nodes[n].name = form

\* transform.ts:180-188.
isInputsAssignment(n) == IsStmt(n, "$inputs=")

\* transform.ts:193-201.
isSubjectAssignment(n) == IsStmt(n, "$subject=")

\* Every assignment through $inputs taken for a modifier.
isInputsWrite(n) == IsStmt(n, "$inputs.p=") \/ IsStmt(n, "$inputs=")

\* transform.ts:206-213.
isInputsModifier(n) == IsStmt(n, "$inputs.p=")

\* transform.ts:218-223.
isItCall(n) ==
    /\ sourceFile.nodes[n].type = "call"
    /\ parseBddCall(sourceFile.nodes[n]).kind = "it"

\* The scan for $subject taken through the callbacks of recognized calls too.
RECURSIVE referencesSubjectDeep(_)
referencesSubjectDeep(n) ==
    LET node == sourceFile.nodes[n]
    IN  IF node.type = "stmt" THEN node.name \in {"$subject=", "$subject.m()"}
        ELSE \E k \in DOMAIN ChildrenOf(n) : referencesSubjectDeep(ChildrenOf(n)[k])

\* transform.ts:17-39: referencesIdentifier(node, "$subject", true).  The
\* scan does not enter the callback of a recognized call (its description is
\* a literal in the files enumerated).
RECURSIVE referencesSubject(_)
referencesSubject(n) ==
    LET node == sourceFile.nodes[n]
    IN  CASE node.type = "stmt" -> node.name \in {"$subject=", "$subject.m()"}
          [] node.type = "call" /\ parseBddCall(node) # NoParse -> FALSE
          [] OTHER -> \E k \in DOMAIN ChildrenOf(n) : referencesSubject(ChildrenOf(n)[k])

\* transform.ts:228-231.
isPerformStatement(n) == ~isItCall(n) /\ referencesSubject(n)

NoEdit == [callee |-> "", config |-> <<>>, removed |-> {}, params |-> <<>>, trailing |-> <<>>]

CtxArg == [arg |-> "__ctx", mode |-> "none"]

ModeArg(primitive, modifier) ==
    IF modifier = "none" THEN <<>> ELSE <<[arg |-> primitive, mode |-> modifier]>>

\* Node n lies under node g.
RECURSIVE Under(_, _)
Under(n, g) ==
    LET q == sourceFile.nodes[n].parent
    IN  q # 0 /\ (q = g \/ Under(q, g))

\* The scan for the factories taken over every statement under the given.
transformGivenDeep(call) ==
    LET stmts == SelectSeq([i \in 1..Len(sourceFile.nodes) |-> i], LAMBDA c : Under(c, call.node))
        ins == SelectSeq(stmts, isInputsAssignment)
        subs == SelectSeq(stmts, isSubjectAssignment)
        keys == (IF ins # <<>> THEN {"inputs"} ELSE {}) \cup (IF subs # <<>> THEN {"subject"} ELSE {})
    IN  IF sourceFile.nodes[call.node].cb # "block" THEN NoEdit
        ELSE [callee |-> "__given",
              config |-> [k \in keys |-> IF k = "inputs" THEN <<Last(ins)>> ELSE <<Last(subs)>>],
              removed |-> Range(ins) \cup Range(subs),
              params |-> <<"__ctx">>,
              trailing |-> ModeArg("describe", call.modifier)]

\* transform.ts:233-310.
transformGiven(call) ==
    LET stmts == DirectStatements(call.node)
        ins == SelectSeq(stmts, isInputsAssignment)
        subs == SelectSeq(stmts, isSubjectAssignment)
        keys == (IF ins # <<>> THEN {"inputs"} ELSE {}) \cup (IF subs # <<>> THEN {"subject"} ELSE {})
    IN  IF sourceFile.nodes[call.node].cb # "block" THEN NoEdit
        ELSE [callee |-> "__given",
              config |-> [k \in keys |-> IF k = "inputs" THEN <<Last(ins)>> ELSE <<Last(subs)>>],
              removed |-> Range(ins) \cup Range(subs),
              params |-> <<"__ctx">>,
              trailing |-> ModeArg("describe", call.modifier)]

\* transform.ts:312-380.
transformWhen(call) ==
    LET stmts == DirectStatements(call.node)
        modifierStmts == SelectSeq(stmts, isInputsModifier)
        performStmts == SelectSeq(stmts, LAMBDA c : ~isInputsModifier(c) /\ isPerformStatement(c))
        keys == (IF modifierStmts # <<>> THEN {"modifier"} ELSE {})
                \cup (IF performStmts # <<>> THEN {"perform"} ELSE {})
    IN  IF sourceFile.nodes[call.node].cb # "block" THEN NoEdit
        ELSE [callee |-> "__when",
              config |-> [k \in keys |-> IF k = "modifier" THEN modifierStmts ELSE performStmts],
              removed |-> Range(modifierStmts) \cup Range(performStmts),
              params |-> <<"__ctx">>,
              trailing |-> <<CtxArg>> \o ModeArg("describe", call.modifier)]

\* transform.ts:382-407.
transformIt(call) ==
    IF sourceFile.nodes[call.node].cb = "none" THEN NoEdit
    ELSE [callee |-> "__it",
          config |-> <<>>,
          removed |-> {},
          params |-> <<"$subject">>,
          trailing |-> <<CtxArg>> \o ModeArg("test", call.modifier)]

\* transform.ts:454-472: the switch on call.kind.
Transformed(call) ==
    CASE call.kind = "given" -> transformGiven(call)
      [] call.kind = "when" -> transformWhen(call)
      [] call.kind = "it" -> transformIt(call)

HelperOf(kind) ==
    CASE kind = "given" -> "__given" [] kind = "when" -> "__when" [] kind = "it" -> "__it"

\* transform.ts:459, 464, 469: the primitive imported for a call with a modifier.
PrimitiveFor(kind) == IF kind = "it" THEN "test" ELSE "describe"

\* transform.ts:446-486: the collected calls are rewritten, deepest first
\* (transformGiven / transformWhen / transformIt record the edits of the call
\* they are given, or return without any), the import is prepended and the
\* transformed code is returned.
RewriteCalls ==
    /\ step = "visit"
    /\ pending = <<>>
    /\ calls # <<>>
    /\ calls' = SortByDepth(calls)
    /\ LET rewritten == {k \in DOMAIN calls : Transformed(calls[k]) # NoEdit}
       IN  /\ edits' = [n \in {calls[k].node : k \in rewritten} |->
                            Transformed(CHOOSE c \in Range(calls) : c.node = n)]
           /\ edited' = {calls[k].node : k \in rewritten}
    /\ usedHelpers' = {HelperOf(calls[k].kind) : k \in DOMAIN calls}
    /\ usedVitestImports' =
            {PrimitiveFor(calls[k].kind) : k \in {j \in DOMAIN calls : calls[j].modifier # "none"}}
    /\ result' = "code"
    /\ step' = "done"
    /\ UNCHANGED <<avars, lvars, rvars, sourceFile, pending, pass>>

\* The statements the edits have taken out of callback bodies.
Extracted == UNION {edits[n].removed : n \in DOMAIN edits}

\* The statements whose text a config function carries.
InConfig ==
    UNION {UNION {Range(edits[n].config[k]) : k \in DOMAIN edits[n].config} : n \in DOMAIN edits}

RECURSIVE InExtracted(_)
InExtracted(n) == n # 0 /\ (n \in Extracted \/ InExtracted(sourceFile.nodes[n].parent))

\* MagicString: the edits of one call applied to the edited text ms, given
\* per node of the original file.  remove() drops the edits made inside the
\* span it removes; overwrite() of a callee replaces what stands there.
ApplyEdits(ms, call) ==
    LET e == Transformed(call)
        inConfig == UNION {Range(e.config[k]) : k \in DOMAIN e.config}
    IN  IF e = NoEdit THEN ms
        ELSE [n \in DOMAIN ms |->
                CASE n \in e.removed ->
                        IF n \in inConfig THEN [sourceFile.nodes[n] EXCEPT !.slot = "arg"]
                        ELSE [sourceFile.nodes[n] EXCEPT !.type = "removed"]
                  [] n \notin e.removed /\ (\E r \in e.removed : Under(n, r)) ->
                        sourceFile.nodes[n]
                  [] n \notin e.removed /\ ~(\E r \in e.removed : Under(n, r)) /\ n = call.node ->
                        [ms[n] EXCEPT !.name = e.callee, !.prop = ""]
                  [] OTHER -> ms[n]]

\* transform.ts:454-472: the edits of the calls cs applied in the order of cs.
RECURSIVE Applied(_)
Applied(cs) ==
    IF cs = <<>> THEN sourceFile.nodes
    ELSE ApplyEdits(Applied(SubSeq(cs, 1, Len(cs) - 1)), Last(cs))

\* The text of node n lies inside a statement that was taken out: the edits
\* made inside that text are dropped with it (MagicString.remove).
Discarded(n) == InExtracted(sourceFile.nodes[n].parent)

\* Node n in the code returned: a rewritten call has its new callee; an
\* extracted statement stands, with its original text (getNodeText of the
\* input), in the config argument of its call, or is gone.
OutputNode(n) ==
    LET node == sourceFile.nodes[n]
    IN  CASE Discarded(n) -> node
          [] ~Discarded(n) /\ n \in Extracted ->
                IF n \in InConfig THEN [node EXCEPT !.slot = "arg"]
                ELSE [node EXCEPT !.type = "removed"]
          [] ~Discarded(n) /\ n \notin Extracted /\ n \in edited ->
                [node EXCEPT !.name = edits[n].callee, !.prop = ""]
          [] OTHER -> node

\* transform.ts:474-486: the file the returned code is.
Output ==
    [imports |-> sourceFile.imports \cup {"runtime"}
                 \cup (IF usedVitestImports # {} THEN {"vitest"} ELSE {}),
     nodes |-> [n \in AstNodes |-> OutputNode(n)]]

\* transformBddSyntax is called on the code it returned.
Reapply ==
    /\ step = "done"
    /\ result = "code"
    /\ pass = 1
    /\ sourceFile' = Output
    /\ pass' = 2
    /\ step' = "start"
    /\ pending' = <<>>
    /\ calls' = <<>>
    /\ edited' = {}
    /\ result' = "none"
    /\ edits' = <<>>
    /\ usedHelpers' = {}
    /\ usedVitestImports' = {}
    /\ UNCHANGED <<avars, lvars, rvars>>

TransformNext ==
    \/ OldApiReturn
    \/ collectBddCalls
    \/ visit
    \/ NoCallsReturn
    \/ RewriteCalls
    \/ Reapply

\* No test file is loaded while a file is transformed.
RuntimeIdle ==
    /\ prog = <<>>
    /\ phase = "idle"
    /\ reg = <<>>
    /\ hostMode = <<>>
    /\ stack = <<>>
    /\ ctxs = <<>>
    /\ exec = <<>>
    /\ heap = <<>>
    /\ inflight = {}
    /\ log = <<>>

TransformInit == RuntimeIdle /\ LegacyIdle /\ TransformOn(SourceFiles(MaxAst), "start")

SpecTransform == TransformInit /\ [][TransformNext]_vars

\* The transform on the files that differ in their statements.
StatementsInit == RuntimeIdle /\ LegacyIdle /\ TransformOn(StatementFiles(MaxAst), "start")

SpecStatements == StatementsInit /\ [][TransformNext]_vars

\* The transform on the files that differ in the shape of their calls.
ShapesInit == RuntimeIdle /\ LegacyIdle /\ TransformOn(ShapeFiles(MaxAst - 1), "start")

SpecShapes == ShapesInit /\ [][TransformNext]_vars

(***************************************************************************)
(* The argument list of one rewritten call.  An argument as written is     *)
(* "expr" (not a function: the description, an options object, a           *)
(* variable), "block" (an inline function with a block body) or "arrow"    *)
(* (an inline arrow function with an expression body).  In the edited text *)
(* an argument has a role and the index it was written at (0: inserted).   *)
(***************************************************************************)
ArgForms == {"expr", "block", "arrow"}

CallSites(max) ==
    [kind : {"given", "when", "it"}, modifier : {"none", "skip", "only"},
     arguments : SeqsUpTo(ArgForms, max)]

\* transform.ts:141-149: the index of the last argument that is a function
\* (0: there is none).
getCallbackArg(args) ==
    LET fns == {i \in DOMAIN args : args[i] \in {"block", "arrow"}}
    IN  IF fns = {} THEN 0 ELSE CHOOSE i \in fns : \A j \in fns : j <= i

\* transform.ts:155-162: whether the callback has a block body.
getBodyStatements(args, cb) == args[cb] = "block"

Inserted(role) == [role |-> role, from |-> 0]

\* s.appendLeft(lastArg.getEnd(), ...): what is appended after the last
\* argument (transform.ts:304-308, 372-378, 399-405).
AppendedLast(kind, modifier) ==
    (IF kind = "given" THEN <<>> ELSE <<Inserted("__ctx")>>)
    \o (IF modifier = "none" THEN <<>> ELSE <<Inserted("mode")>>)

\* s.appendLeft(descArg.getEnd(), config): what is appended after
\* node.arguments[0] (transform.ts:290-292, 361-363).
AppendedFirst(kind) == IF kind = "it" THEN <<>> ELSE <<Inserted("config")>>

\* The argument list in the edited text, from argument i on.
RECURSIVE EditedFrom(_, _, _, _, _)
EditedFrom(i, kind, modifier, args, cb) ==
    IF i > Len(args) THEN <<>>
    ELSE <<[role |-> IF i = cb THEN "callback" ELSE args[i], from |-> i]>>
         \o (IF i = 1 THEN AppendedFirst(kind) ELSE <<>>)
         \o (IF i = Len(args) THEN AppendedLast(kind, modifier) ELSE <<>>)
         \o EditedFrom(i + 1, kind, modifier, args, cb)

AsWritten(args) == [i \in DOMAIN args |-> [role |-> args[i], from |-> i]]

\* transformGiven / transformWhen (block body required) and transformIt on
\* the arguments of one call.
EditArguments(kind, modifier, args) ==
    LET cb == getCallbackArg(args)
    IN  IF cb = 0 \/ (kind # "it" /\ ~getBodyStatements(args, cb))
        THEN [status |-> "returned", arguments |-> AsWritten(args)]
        ELSE [status |-> "rewritten", arguments |-> EditedFrom(1, kind, modifier, args, cb)]

TransformSite(kind) ==
    /\ site.kind = kind
    /\ emitted.status = "none"
    /\ emitted' = EditArguments(site.kind, site.modifier, site.arguments)
    /\ UNCHANGED <<lvars, rvars, sourceFile, step, pending, calls, edited, result, ovars, pass, site>>

GivenArguments == TransformSite("given")

WhenArguments == TransformSite("when")

ItArguments == TransformSite("it")

ArgumentsNext == GivenArguments \/ WhenArguments \/ ItArguments

ArgumentsInit ==
    /\ RuntimeIdle
    /\ LegacyIdle
    /\ sourceFile = [imports |-> {}, nodes |-> <<>>]
    /\ step = "idle"
    /\ pending = <<>>
    /\ calls = <<>>
    /\ edited = {}
    /\ result = "none"
    /\ edits = <<>>
    /\ usedHelpers = {}
    /\ usedVitestImports = {}
    /\ pass = 1
    /\ site \in CallSites(MaxArgs)
    /\ emitted = NotEmitted

SpecArguments == ArgumentsInit /\ [][ArgumentsNext]_vars

(***************************************************************************)
(* The legacy API (src/src/index.ts): given(scenario, inputs,              *)
(* createWorldState, tests) with when(scenario, modifier, tests) and       *)
(* it(scenario, testFn).  One execution of the test callback of an it.     *)
(***************************************************************************)

\* The inputs object the given was called with, and the values a modifier
\* assigns through $.inputs.
GivenInputs == "v0"

AssignedInputs == {"v1", "v2"}

\* The functions a modifier hands to $.perform.
PerformFns == {"p1", "p2"}

\* One use of `$` in a modifier: $.inputs.x = arg, a read of $.state, or
\* $.perform(arg); inside a try/catch of the modifier or not.
Uses ==
    [op : {"set"}, arg : AssignedInputs, caught : BOOLEAN]
    \cup [op : {"state"}, arg : {""}, caught : {FALSE}]
    \cup [op : {"perform"}, arg : PerformFns, caught : BOOLEAN]

\* index.ts:212: createWorldState(testInputs).
createWorldState(inputs) == [builtFrom |-> inputs]

\* A set trap that assigns whatever the state of the test.
inputsProxySetUnguarded(target, value, isCreated) == [threw |-> "", target |-> value]

\* index.ts:222-230: the set trap of inputsProxy.
inputsProxySet(target, value, isCreated) ==
    IF isCreated
    THEN [threw |-> "Cannot modify inputs after state has been accessed", target |-> target]
    ELSE [threw |-> "", target |-> value]

\* index.ts:240-254: perform(performFn).
perform(fn, isCreated, registered) ==
    CASE isCreated ->
            [threw |-> "perform() cannot be called after state has been accessed", fn |-> registered]
      [] ~isCreated /\ registered # "undefined" ->
            [threw |-> "perform() can only be called once in a modifier", fn |-> registered]
      [] OTHER -> [threw |-> "", fn |-> fn]

\* An error thrown by use u: the modifier goes on if it catches it, the test
\* rejects if it does not.
AfterUse(u, threw) ==
    /\ errors' = IF threw = "" THEN errors ELSE Append(errors, threw)
    /\ IF threw = "" \/ u.caught
       THEN /\ uses' = Tail(uses)
            /\ lpc' = IF Tail(uses) = <<>> THEN "getState" ELSE "modifier"
       ELSE /\ uses' = <<>>
            /\ lpc' = "failed"

\* index.ts:205-233: the test callback starts on a copy of the inputs.
LegacyInit ==
    /\ RuntimeIdle
    /\ TransformOn({[imports |-> {}, nodes |-> <<>>]}, "idle")
    /\ uses \in SeqsUpTo(Uses, MaxOps)
    /\ lpc = IF uses = <<>> THEN "getState" ELSE "modifier"
    /\ testInputs = GivenInputs
    /\ stateCreated = FALSE
    /\ worldState = [builtFrom |-> "undefined"]
    /\ performFn = "undefined"
    /\ created = <<>>
    /\ errors = <<>>

\* $.inputs.x = value in the modifier.
ModifierSet ==
    /\ lpc = "modifier"
    /\ Head(uses).op = "set"
    /\ LET r == inputsProxySet(testInputs, Head(uses).arg, stateCreated)
       IN  /\ testInputs' = r.target
           /\ AfterUse(Head(uses), r.threw)
    /\ UNCHANGED <<rvars, tvars, stateCreated, worldState, performFn, created>>

\* index.ts:210-216, 237-239: a read of $.state in the modifier: getState().
ModifierState ==
    /\ lpc = "modifier"
    /\ Head(uses).op = "state"
    /\ IF stateCreated
       THEN UNCHANGED <<worldState, stateCreated, created>>
       ELSE /\ worldState' = createWorldState(testInputs)
            /\ stateCreated' = TRUE
            /\ created' = Append(created, testInputs)
    /\ AfterUse(Head(uses), "")
    /\ UNCHANGED <<rvars, tvars, testInputs, performFn>>

\* $.perform(fn) in the modifier.
ModifierPerform ==
    /\ lpc = "modifier"
    /\ Head(uses).op = "perform"
    /\ LET r == perform(Head(uses).arg, stateCreated, performFn)
       IN  /\ performFn' = r.fn
           /\ AfterUse(Head(uses), r.threw)
    /\ UNCHANGED <<rvars, tvars, testInputs, stateCreated, worldState, created>>

\* index.ts:257: const finalState = getState().
FinalState ==
    /\ lpc = "getState"
    /\ IF stateCreated
       THEN UNCHANGED <<worldState, stateCreated, created>>
       ELSE /\ worldState' = createWorldState(testInputs)
            /\ stateCreated' = TRUE
            /\ created' = Append(created, testInputs)
    /\ lpc' = "perform"
    /\ UNCHANGED <<rvars, tvars, uses, testInputs, performFn, errors>>

\* index.ts:258: await _performFn?.().
LegacyPerform ==
    /\ lpc = "perform"
    /\ lpc' = "testFn"
    /\ UNCHANGED <<rvars, tvars, uses, testInputs, stateCreated, worldState, performFn,
                   created, errors>>

\* index.ts:259-260: await testFn(finalState), then the cleanup.
LegacyTestFn ==
    /\ lpc = "testFn"
    /\ lpc' = "done"
    /\ UNCHANGED <<rvars, tvars, uses, testInputs, stateCreated, worldState, performFn,
                   created, errors>>

LegacyNext ==
    \/ ModifierSet
    \/ ModifierState
    \/ ModifierPerform
    \/ FinalState
    \/ LegacyPerform
    \/ LegacyTestFn

SpecLegacy == LegacyInit /\ [][LegacyNext]_vars


(***************************************************************************)
(* Properties.                                                             *)
(***************************************************************************)

IsPrefix(a, b) == Len(a) <= Len(b) /\ SubSeq(b, 1, Len(a)) = a

IsCall(e) == e[1] \in {"inputs", "modifier", "subject", "perform", "testFn"}

\* The calls the closure of t has made, in the order it made them.
Calls(t) == SelectSeq(log[t], IsCall)

CallsOf(t, kind) == SelectSeq(log[t], LAMBDA e : e[1] = kind)

\* The five steps on the context of t, with the values of this execution.
ExpectedCalls(t) ==
    LET c == Ctx(t)
        inp == exec[t].inputs
        sub == exec[t].subject
    IN  <<<<"inputs", c.inputs, inp>>>>
        \o [i \in 1..Len(c.modifiers) |-> <<"modifier", c.modifiers[i], inp>>]
        \o <<<<"subject", c.subject, inp>>>>
        \o [i \in 1..Len(c.performs) |-> <<"perform", c.performs[i], sub>>]
        \o <<<<"testFn", t, sub>>>>

\* C1: in every execution of a test registered by __it the calls made so far
\* are an initial part of: inputs() once, every modifier of ctx.modifiers once
\* in chain order on that input value, subject() once on the same input value,
\* every perform of ctx.performs once in chain order on that subject, the test
\* body once on that subject; an execution that completes has made them all.
C1_StepOrder ==
    \A t \in Its :
        /\ IsPrefix(Calls(t), ExpectedCalls(t))
        /\ exec[t].pc = "fulfilled" => Calls(t) = ExpectedCalls(t)
        /\ exec[t].subject # 0 => heap[exec[t].subject].from = exec[t].inputs

C1_Witness ==
    \E t \in Its :
        /\ exec[t].pc = "fulfilled"
        /\ Len(Ctx(t).modifiers) >= 2
        /\ Len(Ctx(t).performs) >= 2

\* The objects an execution has passed to a function or got from a factory.
Seen(t) == {log[t][k][3] : k \in DOMAIN log[t]} \ {0}

\* C2: an execution only ever sees input values and subjects that its own
\* calls of the factories produced, and nothing but that execution has written
\* to them.
C2_Isolation ==
    \A t \in Its :
        /\ \A o \in Seen(t) : heap[o].maker = t /\ heap[o].writers \subseteq {t}
        /\ \A u \in Its \ {t} : Seen(t) \cap Seen(u) = {}
        /\ \A o \in Seen(t) : heap[o].kind = "subject" => heap[heap[o].from].maker = t

\* Two executions under one given, one after the other, each of which has
\* written to its input value and its subject.
C2_Witness ==
    \E t, u \in Its :
        /\ t # u
        /\ exec[t].pc \in {"fulfilled", "rejected"}
        /\ exec[u].pc = "fulfilled"
        /\ Ctx(t).inputs = Ctx(u).inputs
        /\ \E o \in Seen(t) : heap[o].kind = "inputs" /\ heap[o].writers = {t}
        /\ \E o \in Seen(u) : heap[o].kind = "inputs" /\ heap[o].writers = {u}
        /\ \E o \in Seen(t) : heap[o].kind = "subject" /\ heap[o].writers = {t}

Built(n) == prog[n].kind # "it" /\ reg[n] \in {"active", "done"}

\* C3: a context object never changes once its callback has built it, whatever
\* is registered afterwards, and a context derived by a when holds only
\* modifiers and performs of that when and of the whens around it.
C3_CopyOnExtend ==
    /\ [][\A n \in Nodes : Built(n) => ctxs'[n] = ctxs[n]]_vars
    /\ [](\A n \in Nodes :
            Built(n) => Range(ctxs[n].modifiers) \cup Range(ctxs[n].performs)
                            \subseteq Range(Path(n)))

\* Two sibling whens have derived their contexts from the same parent, each
\* with a modifier of its own.
C3_Witness ==
    \E m, n \in Nodes :
        /\ m < n
        /\ prog[m].kind = "when" /\ prog[n].kind = "when"
        /\ prog[m].parent = prog[n].parent
        /\ Built(m) /\ Built(n)
        /\ "modifier" \in prog[m].config /\ "modifier" \in prog[n].config

\* The whens around n inside its nearest enclosing given, outermost first.
RECURSIVE WhenChain(_)
WhenChain(n) ==
    IF n = 0 \/ prog[n].kind = "given" THEN <<>>
    ELSE WhenChain(prog[n].parent) \o (IF prog[n].kind = "when" THEN <<n>> ELSE <<>>)

Depth(t) == Len(WhenChain(t))

Supplying(t, member) == SelectSeq(WhenChain(t), LAMBDA w : member \in prog[w].config)

Functions(events) == [k \in DOMAIN events |-> events[k][2]]

\* C4 as stated: an it under a when chain of depth D invokes exactly D
\* modifiers and exactly D performs.
C4_ExactlyD ==
    \A t \in Its :
        exec[t].pc = "fulfilled" =>
            /\ Len(CallsOf(t, "modifier")) = Depth(t)
            /\ Len(CallsOf(t, "perform")) = Depth(t)

\* C4 (amended): an it under a when chain of depth D invokes, outermost first,
\* the modifier of every when of the chain that supplies one and the perform
\* of every when of the chain that supplies one: at most D of each, and
\* exactly D when every when of the chain supplies both.
C4_ChainDepth ==
    \A t \in Its :
        exec[t].pc = "fulfilled" =>
            /\ Functions(CallsOf(t, "modifier")) = Supplying(t, "modifier")
            /\ Functions(CallsOf(t, "perform")) = Supplying(t, "perform")
            /\ Len(CallsOf(t, "modifier")) <= Depth(t)
            /\ Len(CallsOf(t, "perform")) <= Depth(t)

\* A completed it under a chain of depth 2 in which both whens supply a
\* modifier and only one supplies a perform.
C4_Witness ==
    \E t \in Its :
        /\ exec[t].pc = "fulfilled"
        /\ Depth(t) = 2
        /\ Len(CallsOf(t, "modifier")) = 2
        /\ Len(CallsOf(t, "perform")) = 1

\* C5: the closure starts nothing while a perform or the test body it called
\* is unsettled: the next event after such a call is the settlement of that
\* call, and the promise of the closure settles only when nothing it called
\* is unsettled, a fulfilled one right after the test body has settled.
C5_AwaitedInOrder ==
    \A t \in Its :
        /\ \A k \in DOMAIN log[t] :
              (log[t][k][1] \in {"perform", "testFn"} /\ k < Len(log[t])) =>
                  /\ log[t][k + 1][1] \in {"settled", "threw"}
                  /\ log[t][k + 1][2] = log[t][k][2]
        /\ Settled(t) => \A op \in inflight : op[1] # t
        /\ exec[t].pc = "fulfilled" => Last(log[t]) = <<"settled", t, exec[t].subject>>

\* The closure waits for its second perform, the first one having settled.
C5_Witness ==
    \E t \in Its :
        /\ exec[t].pc = "awaitPerform"
        /\ exec[t].i = 2
        /\ <<t, "perform", 2>> \in inflight

Failed(t) == \E k \in DOMAIN log[t] : log[t][k][1] = "threw"

\* C6: an it case fails exactly when one of its own steps threw or rejected;
\* the step that fails it changes no context, no registration and nothing of
\* any other it; and an it that runs after a failed one still makes its full
\* sequence of calls.
C6_FailureIsolation ==
    /\ [][\A t \in Its :
            (exec[t].pc # "rejected" /\ exec'[t].pc = "rejected") =>
                /\ ctxs' = ctxs /\ reg' = reg /\ hostMode' = hostMode
                /\ \A u \in Its \ {t} : exec'[u] = exec[u] /\ log'[u] = log[u]]_vars
    /\ [](\A t \in Its : Settled(t) => (exec[t].pc = "rejected" <=> Failed(t)))
    /\ [](\A t, u \in Its :
            (t < u /\ exec[t].pc = "rejected" /\ exec[u].pc = "fulfilled") =>
                Calls(u) = ExpectedCalls(u))
    /\ [](\A t, u \in Its :
            (exec[t].pc = "rejected" /\ exec[u].pc = "registered"
                /\ \A v \in Its : ~Pending(v)) => ENABLED HostNext)

\* After a perform of one it rejected, a later it under the same when ran all
\* its steps.
C6_Witness ==
    \E t, u \in Its :
        /\ t < u
        /\ prog[t].parent = prog[u].parent
        /\ exec[t].pc = "rejected"
        /\ \E k \in DOMAIN log[t] : log[t][k][1] = "perform"
        /\ exec[u].pc = "fulfilled"
        /\ Len(CallsOf(u, "perform")) >= 1

Active(t) == Pending(t) \/ \E op \in inflight : op[1] = t

Finished(t) == exec[t].pc \in {"fulfilled", "rejected", "skipped"} /\ ~Active(t)

\* C7: at most one it has unsettled work at any time, and an it begins only
\* when every it before it in the file has fully settled (or was skipped).
C7_Sequential ==
    \A t, u \in Its :
        t # u =>
            /\ ~(Active(t) /\ Active(u))
            /\ (t < u /\ (Active(u) \/ log[u] # <<>>)) => Finished(t)

\* The second it waits for a perform after the first it, which awaited a
\* perform too, has settled.
C7_Witness ==
    \E t, u \in Its :
        /\ t < u
        /\ exec[t].pc = "fulfilled"
        /\ Len(CallsOf(t, "perform")) >= 1
        /\ exec[u].pc = "awaitPerform"

\* C8: while the host collects registrations no factory, modifier, perform or
\* test body is invoked and no closure of an it has been started; each
\* given/when callback is entered at most once, with a context of its own, and
\* has run when collection ends; closures run only after collection has ended.
C8_Lazy ==
    /\ [](phase = "collect" =>
            /\ heap = <<>> /\ inflight = {}
            /\ \A n \in Nodes : log[n] = <<>> /\ exec[n].pc \in {"none", "registered"})
    /\ [](phase = "run" => stack = <<>> /\ \A n \in Nodes : reg[n] = "done")
    /\ [](\A k \in DOMAIN stack :
            stack[k] # 0 => /\ reg[stack[k]] = "active"
                            /\ ctxs[stack[k]] # NoCtx
                            /\ \A j \in DOMAIN stack : j # k => stack[j] # stack[k])
    /\ [][\A n \in Nodes :
            /\ (reg[n] # "active" /\ reg'[n] = "active") => reg[n] = "pending"
            /\ reg[n] = "done" => reg'[n] = "done"]_vars

\* Registration is under way: an it under a when with a modifier and a perform
\* is registered, and the callback of a later when has not run yet.
C8_Witness ==
    /\ phase = "collect"
    /\ \E t \in Its :
        /\ exec[t].pc = "registered"
        /\ Len(Ctx(t).modifiers) >= 1
        /\ Len(Ctx(t).performs) >= 1
    /\ \E n \in Nodes : reg[n] = "pending"

\* The given whose factories the context of n carries.
RECURSIVE GivenOf(_)
GivenOf(n) == IF prog[n].kind = "given" THEN n ELSE GivenOf(prog[n].parent)

\* The context of given/when n as the calls around it determine it, whatever
\* primitive each call was made with.
PlainCtx(n) ==
    [inputs    |-> GivenOf(n),
     subject   |-> GivenOf(n),
     modifiers |-> Supplying(n, "modifier"),
     performs  |-> Supplying(n, "perform")]

Pair(kind, fns) == [k \in DOMAIN fns |-> <<kind, fns[k]>>]

\* The functions an it calls as the calls around it determine them.
PlainSteps(t) ==
    <<<<"inputs", GivenOf(t)>>>> \o Pair("modifier", Supplying(t, "modifier"))
    \o <<<<"subject", GivenOf(t)>>>> \o Pair("perform", Supplying(t, "perform"))
    \o <<<<"testFn", t>>>>

Steps(t) == [k \in DOMAIN Calls(t) |-> <<Calls(t)[k][1], Calls(t)[k][2]>>]

UnderSkip(t) == \E k \in DOMAIN Path(t) : prog[Path(t)[k]].mode = "skip"

\* C9: the primitive passed to a registration is the primitive the host
\* receives for that call and nothing else: every context built and every
\* step of an it that runs are those the calls around it determine without
\* regard to any primitive; and an it registered with skip, or under a given
\* or when registered with skip, never starts.
C9_ModeOnlySelectsPrimitive ==
    /\ \A n \in Nodes : reg[n] # "none" => hostMode[n] = prog[n].mode
    /\ \A n \in Nodes : Built(n) => ctxs[n] = PlainCtx(n)
    /\ \A t \in Its :
        /\ IsPrefix(Steps(t), PlainSteps(t))
        /\ exec[t].pc = "fulfilled" => Steps(t) = PlainSteps(t)
        /\ UnderSkip(t) => log[t] = <<>> /\ exec[t].pc \in {"none", "registered", "skipped"}

\* An it under a when registered with only has completed, an it registered
\* with skip under the same given was skipped.
C9_Witness ==
    \E t, u \in Its :
        /\ prog[prog[t].parent].kind = "when"
        /\ prog[prog[t].parent].mode = "only"
        /\ exec[t].pc = "fulfilled"
        /\ prog[u].mode = "skip"
        /\ exec[u].pc = "skipped"

IsGiven(n) ==
    /\ sourceFile.nodes[n].type = "call"
    /\ parseBddCall(sourceFile.nodes[n]).kind = "given"

IsWhenOrIt(n) ==
    /\ sourceFile.nodes[n].type = "call"
    /\ parseBddCall(sourceFile.nodes[n]).kind \in {"when", "it"}

\* Node n lies in the callback of a recognized given call.
RECURSIVE InGivenCallback(_)
InGivenCallback(n) ==
    LET q == sourceFile.nodes[n].parent
    IN  q # 0 /\ ((IsGiven(q) /\ sourceFile.nodes[n].slot = "callback") \/ InGivenCallback(q))

\* Node n lies in a recognized given call: in its callback or in another of
\* its arguments.
RECURSIVE InGivenCall(_)
InGivenCall(n) ==
    LET q == sourceFile.nodes[n].parent
    IN  q # 0 /\ (IsGiven(q) \/ InGivenCall(q))

Collected == {calls[k].node : k \in DOMAIN calls}

\* C10: a when or it call is collected, and rewritten, only if it lies in the
\* callback of a recognized given call; and a file without a recognized given
\* is returned as null.
C10_OnlyInGivenCallback ==
    /\ \A n \in Collected \cup edited : IsWhenOrIt(n) => InGivenCallback(n)
    /\ (step = "done" /\ \A n \in AstNodes : ~IsGiven(n)) => result = "null"

\* What the locator does: a when or it call is collected, and rewritten,
\* exactly if it lies anywhere in a recognized given call; a file without a
\* recognized given is returned as null, with no call rewritten.
C10_OnlyInGivenCall ==
    /\ \A n \in Collected \cup edited : IsWhenOrIt(n) => InGivenCall(n)
    /\ (step = "done" /\ result = "code") =>
            /\ \A n \in AstNodes : IsWhenOrIt(n) => (n \in Collected <=> InGivenCall(n))
            /\ edited = Collected
    /\ (step = "done" /\ \A n \in AstNodes : ~IsGiven(n)) => result = "null" /\ edited = {}

\* The transform has rewritten an it call written in an argument of a given
\* that is not its callback.
C10_Witness ==
    /\ step = "done"
    /\ result = "code"
    /\ \E n \in edited :
        /\ IsWhenOrIt(n)
        /\ ~InGivenCallback(n)
        /\ sourceFile.nodes[n].slot = "arg"

Recognized(n) ==
    /\ sourceFile.nodes[n].type = "call"
    /\ parseBddCall(sourceFile.nodes[n]) # NoParse

\* C11: transformBddSyntax returns null and rewrites nothing on a file that
\* contains no recognized call, or imports the internal registration
\* functions, or imports `given` by name, whatever else the file contains.
C11_NoOp ==
    (/\ step = "done"
     /\ \/ \A n \in AstNodes : ~Recognized(n)
        \/ "runtime" \in sourceFile.imports
        \/ "given" \in sourceFile.imports)
    => (result = "null" /\ edited = {})

\* What the code does: null on a file that collects no call (none recognized,
\* or only when/it outside every given) or that imports `given` by name.
C11_NoOpWithoutRuntimeCheck ==
    (/\ step = "done"
     /\ \/ \A n \in AstNodes : ~Recognized(n)
        \/ "given" \in sourceFile.imports)
    => (result = "null" /\ edited = {})

\* A file that imports the internal registration functions and calls given
\* has been rewritten.
C11_Witness ==
    /\ step = "done"
    /\ "runtime" \in sourceFile.imports
    /\ result = "code"
    /\ \E n \in edited : IsGiven(n)

\* C12: idempotence: transformBddSyntax applied to the code it returned
\* returns null (no second import line, no call rewritten).
C12_Idempotent ==
    (pass = 2 /\ step = "done") => (result = "null" /\ edited = {})

\* The code returned for a file was transformed again, and code came back
\* with the runtime import prepended once more: a given of the file was
\* collected and left as it was, in both passes.
C12_Witness ==
    /\ pass = 2
    /\ step = "done"
    /\ result = "code"
    /\ "__given" \in usedHelpers
    /\ \E n \in Collected : IsGiven(n) /\ n \notin edited

\* The callback argument of call n is not an inline function.
NotInline(n) == Recognized(n) /\ sourceFile.nodes[n].cb = "none"

\* C13: a file with a recognized given/when/it call whose callback is not an
\* inline function fails with a diagnostic: no code is returned and no call
\* is rewritten.
C13_NotInlineIsFatal ==
    (step = "done" /\ \E n \in AstNodes : NotInline(n))
    => (result = "error" /\ edited = {} /\ usedHelpers = {})

\* A collected call without an inline callback was passed over in silence:
\* code was returned, with another call of the file rewritten and the import
\* naming the helper of the call passed over.
C13_Witness ==
    /\ pass = 1
    /\ step = "done"
    /\ result = "code"
    /\ edited # {}
    /\ \E n \in Collected \ edited : NotInline(n) /\ HelperOf(parseBddCall(sourceFile.nodes[n]).kind) \in usedHelpers

\* A when or it call with no given around it.
Unscoped(n) == IsWhenOrIt(n) /\ ~InGivenCall(n)

\* C14: a file with a when or it call outside its required enclosing scope
\* fails at transform time: a diagnostic, no code returned, no call rewritten.
C14_UnscopedIsFatal ==
    (step = "done" /\ \E n \in AstNodes : Unscoped(n))
    => (result = "error" /\ edited = {})

\* A file with a when or it call outside every given was transformed: the
\* call was not collected, a given of the file was rewritten and code was
\* returned.
C14_Witness ==
    /\ pass = 1
    /\ step = "done"
    /\ result = "code"
    /\ \E n \in AstNodes \ Collected : Unscoped(n)
    /\ \E n \in edited : IsGiven(n)

\* C15: the callback of every rewritten it call has the two parameters
\* $inputs and $subject, in this order.
C15_ItParams ==
    \A n \in DOMAIN edits :
        isItCall(n) => edits[n].params = <<"$inputs", "$subject">>

\* An it call inside a given was rewritten to __it with a callback that takes
\* the subject alone.
C15_Witness ==
    /\ step = "done"
    /\ result = "code"
    /\ \E n \in edited :
        /\ isItCall(n)
        /\ InGivenCallback(n)
        /\ edits[n].callee = "__it"
        /\ edits[n].params = <<"$subject">>

\* Statement c mentions $subject outside the callbacks of the recognized
\* calls it contains.
RECURSIVE MentionsSubject(_)
MentionsSubject(c) ==
    \/ sourceFile.nodes[c].type = "stmt" /\ sourceFile.nodes[c].name \in {"$subject=", "$subject.m()"}
    \/ /\ sourceFile.nodes[c].type = "block"
       /\ \E d \in AstNodes : sourceFile.nodes[d].parent = c /\ MentionsSubject(d)

\* The direct statements of when call w of the form `$inputs.prop = expr`.
ModifierStatements(w) ==
    {c \in Range(DirectStatements(w)) :
        sourceFile.nodes[c].type = "stmt" /\ sourceFile.nodes[c].name = "$inputs.p="}

\* The other direct statements of w that are not it calls and mention $subject.
PerformStatements(w) ==
    {c \in Range(DirectStatements(w)) \ ModifierStatements(w) :
        /\ ~(sourceFile.nodes[c].type = "call" /\ sourceFile.nodes[c].name = "it")
        /\ MentionsSubject(c)}

Once(seq, set) == Range(seq) = set /\ Len(seq) = Cardinality(set)

C16_WitnessBlock ==
    /\ step = "done"
    /\ \E w \in edited :
        /\ edits[w].callee = "__when"
        /\ \E c \in edits[w].removed : sourceFile.nodes[c].type = "block"

\* The statements `$inputs = expr` / `$subject = expr` in source file order.
Assignments(slot) ==
    {c \in AstNodes : sourceFile.nodes[c].type = "stmt" /\ sourceFile.nodes[c].name = slot}

\* Statement c is one of the statements of the callback body of call g.
DirectOf(c, g) == sourceFile.nodes[c].parent = g /\ sourceFile.nodes[c].slot = "callback"

\* C17: the factories of a rewritten given come from the direct statements
\* of its callback alone: `inputs` is there iff a direct `$inputs = expr`
\* is, `subject` iff a direct `$subject = expr` is, each carrying a direct
\* assignment; the direct assignments are removed from the body, and an
\* assignment nested deeper (in a when or it callback, a block, a nested
\* given) is neither taken into this given's config nor removed by it.
C17_DirectStatementsOnly ==
    \A g \in DOMAIN edits :
        edits[g].callee = "__given" =>
            LET cfg == edits[g].config
                I == {c \in Assignments("$inputs=") : DirectOf(c, g)}
                S == {c \in Assignments("$subject=") : DirectOf(c, g)}
            IN  /\ ("inputs" \in DOMAIN cfg) <=> (I # {})
                /\ ("subject" \in DOMAIN cfg) <=> (S # {})
                /\ "inputs" \in DOMAIN cfg => Len(cfg["inputs"]) = 1 /\ cfg["inputs"][1] \in I
                /\ "subject" \in DOMAIN cfg => Len(cfg["subject"]) = 1 /\ cfg["subject"][1] \in S
                /\ edits[g].removed = I \cup S
                /\ \A c \in I \cup S :
                        Output.nodes[c].type = "removed" \/ Output.nodes[c].slot = "arg"
                /\ \A c \in Assignments("$inputs=") \cup Assignments("$subject=") :
                        (Under(c, g) /\ ~DirectOf(c, g) /\ c \notin Extracted)
                        => Output.nodes[c] = sourceFile.nodes[c]

\* A given with a direct assignment and an assignment nested deeper was
\* rewritten: the direct one became a factory, the nested one stayed.
C17_Witness ==
    /\ step = "done"
    /\ \E g \in edited :
        /\ edits[g].callee = "__given"
        /\ DOMAIN edits[g].config # {}
        /\ \E c \in Assignments("$inputs=") \cup Assignments("$subject=") :
            /\ Under(c, g)
            /\ ~DirectOf(c, g)
            /\ c \notin Extracted

\* The collected calls written with .skip or .only.
WithModifier == {c \in Range(calls) : c.modifier # "none"}

\* The execution mode of call c is its last argument in the output, after
\* the context argument where the call has one.
ModeIsLast(c) ==
    /\ c.node \in DOMAIN edits
    /\ edits[c.node].trailing =
            (IF c.kind = "given" THEN <<>> ELSE <<CtxArg>>)
            \o <<[arg |-> PrimitiveFor(c.kind), mode |-> c.modifier]>>

\* C18: in the code returned, every collected call written with .skip or
\* .only has the plain callee __given / __when / __it, no qualified callee
\* left, and its mode (describe.skip / describe.only for given and when,
\* test.skip / test.only for it) as the last argument.
C18_ModeAsLastArgument ==
    (step = "done" /\ result = "code") =>
        \A c \in WithModifier :
            /\ Output.nodes[c.node].name = HelperOf(c.kind)
            /\ Output.nodes[c.node].prop = ""
            /\ ModeIsLast(c)

\* What the code does: the same for the calls it rewrites, where the text of
\* the call survives.
C18_ModeWhereRewritten ==
    (step = "done" /\ result = "code") =>
        \A c \in WithModifier :
            (c.node \in edited /\ ~Discarded(c.node)) =>
                /\ Output.nodes[c.node].name = HelperOf(c.kind)
                /\ Output.nodes[c.node].prop = ""
                /\ ModeIsLast(c)

\* Code was returned in which a collected given.skip, whose callback is an
\* inline arrow function with an expression body, still reads given.skip
\* and has no mode argument.
C18_Witness ==
    /\ pass = 1
    /\ step = "done"
    /\ result = "code"
    /\ \E c \in WithModifier :
        /\ c.kind = "given"
        /\ sourceFile.nodes[c.node].cb = "expr"
        /\ Output.nodes[c.node].name = "given"
        /\ Output.nodes[c.node].prop = "skip"
        /\ c.node \notin DOMAIN edits

\* The internal registration functions the returned code calls.
CalledHelpers ==
    {Output.nodes[n].name :
        n \in {m \in AstNodes : /\ Output.nodes[m].type = "call"
                                 /\ Output.nodes[m].name \in {"__given", "__when", "__it"}}}

\* The host primitives the collected calls ask for by .skip / .only.
ModePrimitives == {PrimitiveFor(c.kind) : c \in WithModifier}

\* C19: the import prepended to the returned code names exactly the
\* internal registration functions that code calls, and describe / test is
\* imported iff a collected call of its kind was written with .skip / .only.
C19_ImportsExactlyUsed ==
    (step = "done" /\ result = "code") =>
        /\ usedHelpers = CalledHelpers
        /\ usedVitestImports = ModePrimitives

\* What the code does: the import names the helper of every collected call,
\* rewritten or not, and the primitive of every collected call with a modifier.
C19_ImportsOfCollected ==
    (pass = 1 /\ step = "done" /\ result = "code") =>
        /\ usedHelpers = {HelperOf(c.kind) : c \in Range(calls)}
        /\ CalledHelpers \subseteq usedHelpers
        /\ usedVitestImports = ModePrimitives

\* Code was returned whose import names __given although no call of the
\* code is a __given call: the one given of the file, with an inline
\* expression-bodied callback, was collected and left as written.
C19_Witness ==
    /\ pass = 1
    /\ step = "done"
    /\ result = "code"
    /\ "__given" \in usedHelpers \ CalledHelpers
    /\ \A c \in Range(calls) : c.kind = "given" => sourceFile.nodes[c.node].cb = "expr"

\* Node n reads in the returned code as it does in the file, at its place.
Untouched(n) == Output.nodes[n] = sourceFile.nodes[n]

\* The blocks (loop and conditional bodies) around a collected call.
Surrounding == {b \in AstNodes : /\ sourceFile.nodes[b].type = "block"
                                 /\ \E c \in Collected : Under(c, b)}

\* C20: frame of the transform: the returned code differs from the file
\* only in given calls and inside them; a loop or conditional around a nested
\* when / it stands as written; $inputs / $subject outside every given is
\* not rewritten.
C20_Frame ==
    (step = "done" /\ result = "code") =>
        /\ \A n \in AstNodes : ~Untouched(n) => (IsGiven(n) \/ InGivenCall(n))
        /\ \A b \in Surrounding : Untouched(b)

\* What the code does: the same, except for a loop or conditional that is a
\* direct statement of a when callback and mentions $subject: it is moved
\* into the perform function with the text it has in the file.
C20_FrameButPerform ==
    (step = "done" /\ result = "code") =>
        /\ \A n \in AstNodes : ~Untouched(n) => (IsGiven(n) \/ InGivenCall(n))
        /\ \A b \in Surrounding \ Extracted : Untouched(b)
        /\ \A b \in Surrounding \cap Extracted :
                /\ Output.nodes[b] = [sourceFile.nodes[b] EXCEPT !.slot = "arg"]
                /\ \A c \in AstNodes : Under(c, b) => Untouched(c)

\* A loop around an it, in a when callback, was taken out of the callback
\* body and put into the perform function, the it inside still reading `it`.
C20_Witness ==
    /\ step = "done"
    /\ result = "code"
    /\ \E w \in edited, b \in Surrounding :
        /\ edits[w].callee = "__when"
        /\ b \in edits[w].removed
        /\ \E c \in Collected :
            /\ isItCall(c)
            /\ Under(c, b)
            /\ Output.nodes[c].name = "it"

\* An assignment through $.inputs after the state was created throws and
\* changes nothing.
SetRefused ==
    (ModifierSet /\ stateCreated)
    => (Len(errors') = Len(errors) + 1 /\ testInputs' = testInputs)

\* A call of $.perform after the state was created, or after an earlier
\* call, throws and keeps what was registered.
PerformRefused ==
    (ModifierPerform /\ (stateCreated \/ performFn # "undefined"))
    => (Len(errors') = Len(errors) + 1 /\ performFn' = performFn)

\* C21: in one execution of a legacy it the world state is created at most
\* once; once it is created an assignment through $.inputs throws and
\* leaves the inputs as they are, and a call of $.perform throws; a second
\* call of $.perform throws and the function registered first is kept.
C21_LegacyGuards ==
    /\ [](Len(created) <= 1)
    /\ [][SetRefused /\ PerformRefused]_vars

\* An execution in which, after the state was created, an assignment and
\* then a call of $.perform were refused: the state was built once, from
\* the inputs of the given, and the inputs are still those.
C21_Witness ==
    /\ lpc = "done"
    /\ created = <<GivenInputs>>
    /\ errors = <<"Cannot modify inputs after state has been accessed",
                  "perform() cannot be called after state has been accessed">>
    /\ testInputs = GivenInputs
    /\ performFn = "undefined"
    /\ worldState = createWorldState(GivenInputs)

\* What when n itself puts at the end of a chain: its function, if its
\* config has the member.
Own(n, member) == IF member \in prog[n].config THEN <<n>> ELSE <<>>

\* C22: the context a when derives is its parent's context extended at the
\* end only: modifiers and performs are the parent's lists followed by the
\* when's own modifier / perform if it has one, the factories are the
\* parent's; so each chain of a call has the chain of every call around it
\* as a prefix.
C22_ExtendedAtEnd ==
    \A n \in Nodes :
        (prog[n].kind = "when" /\ Built(n)) =>
            LET q == prog[n].parent
            IN  /\ ctxs[n].modifiers = ctxs[q].modifiers \o Own(n, "modifier")
                /\ ctxs[n].performs = ctxs[q].performs \o Own(n, "perform")
                /\ ctxs[n].inputs = ctxs[q].inputs
                /\ ctxs[n].subject = ctxs[q].subject
                /\ \A a \in Range(Path(n)) :
                        GivenOf(a) = GivenOf(n) =>
                            /\ IsPrefix(ctxs[a].modifiers, ctxs[n].modifiers)
                            /\ IsPrefix(ctxs[a].performs, ctxs[n].performs)

\* A when nested in a when has derived its context: the outer one supplies a
\* modifier and a perform, the inner one a modifier only, so the inner
\* perform chain equals the outer one and the inner modifier chain is longer.
C22_Witness ==
    \E n \in Nodes :
        /\ prog[n].kind = "when" /\ Built(n)
        /\ prog[prog[n].parent].kind = "when"
        /\ prog[prog[n].parent].config = {"modifier", "perform"}
        /\ prog[n].config = {"modifier"}
        /\ Len(ctxs[n].modifiers) = 2
        /\ ctxs[n].performs = ctxs[prog[n].parent].performs

\* The direct statements of when call w that are not expression statements
\* of the forms `$inputs.prop = expr`, `$subject...`: blocks (loops,
\* conditionals) and nested calls.
Constructs(w) ==
    {c \in Range(DirectStatements(w)) : sourceFile.nodes[c].type # "stmt"}

\* C23: in a rewritten when callback a loop, a conditional or a nested
\* when / it call is pass-through body: it is not extracted, it stays at its
\* place in the callback, and the collected calls inside it are rewritten in
\* place.
C23_ConstructsPassThrough ==
    (step = "done" /\ result = "code") =>
        \A w \in DOMAIN edits :
            edits[w].callee = "__when" =>
                \A c \in Constructs(w) :
                    /\ c \notin edits[w].removed
                    /\ Output.nodes[c].slot = "callback"
                    /\ \A d \in Collected :
                            (d = c \/ Under(d, c)) =>
                                Output.nodes[d].name \in {"__given", "__when", "__it"}

\* What the code does: a construct passes through unless it mentions
\* $subject outside the callbacks of the recognized calls in it.
C23_PassThroughUnlessSubject ==
    (step = "done" /\ result = "code") =>
        \A w \in DOMAIN edits :
            edits[w].callee = "__when" =>
                \A c \in Constructs(w) :
                    (c \in edits[w].removed) <=> MentionsSubject(c)

\* A loop that is a direct statement of a when callback was extracted into
\* the perform function of the when.
C23_Witness ==
    /\ step = "done"
    /\ result = "code"
    /\ \E w \in DOMAIN edits :
        /\ edits[w].callee = "__when"
        /\ "perform" \in DOMAIN edits[w].config
        /\ \E c \in Constructs(w) :
            /\ sourceFile.nodes[c].type = "block"
            /\ c \in Range(edits[w].config["perform"])
            /\ Output.nodes[c].slot = "arg"

\* The statements under c (c included) that mention $subject.
SubjectUses(c) ==
    {d \in AstNodes :
        /\ d = c \/ Under(d, c)
        /\ sourceFile.nodes[d].type = "stmt"
        /\ sourceFile.nodes[d].name \in {"$subject=", "$subject.m()"}}

\* Use d, under statement c, lies in the callback of a recognized call that
\* is c or is nested in c.
Behind(d, c) ==
    \E e \in AstNodes : Recognized(e) /\ (e = c \/ Under(e, c)) /\ Under(d, e)

Turn(n) == CHOOSE k \in DOMAIN calls : calls[k].node = n

\* cs with the calls at k and k + 1 exchanged.
Exchanged(cs, k) == [cs EXCEPT ![k] = cs[k + 1], ![k + 1] = cs[k]]

\* C25: calls are rewritten deepest first: of two collected calls, one in
\* the other, the inner one has the strictly greater depth and is rewritten
\* before the outer one; edits address the original file, so the code
\* returned is what the edits give in that order, and it is the same when
\* two calls of equal depth change turns.
C25_DeepestFirst ==
    (step = "done" /\ result = "code") =>
        /\ \A a, b \in Range(calls) :
                Under(b.node, a.node) => (b.depth > a.depth /\ Turn(b.node) < Turn(a.node))
        /\ Applied(calls) = Output.nodes
        /\ \A k \in 1..(Len(calls) - 1) :
                calls[k].depth = calls[k + 1].depth =>
                    Applied(Exchanged(calls, k)) = Output.nodes

\* A when was rewritten after the it inside a loop of it, and its edit
\* removed the loop together with the edit made on the it.
C25_Witness ==
    /\ step = "done"
    /\ result = "code"
    /\ \E a, b \in Range(calls) :
        /\ a.kind = "when" /\ b.kind = "it"
        /\ Under(b.node, a.node)
        /\ b.node \in edited
        /\ Discarded(b.node)
        /\ Turn(b.node) < Turn(a.node)
        /\ Applied(calls)[b.node] = sourceFile.nodes[b.node]

\* Two calls of equal depth were rewritten one right after the other.
C25_WitnessEqualDepth ==
    /\ step = "done"
    /\ result = "code"
    /\ \E k \in 1..(Len(calls) - 1) :
        /\ calls[k].depth = calls[k + 1].depth
        /\ {calls[k].node, calls[k + 1].node} \subseteq edited

\* The direct statements of the callback of call g that assign to slot.
DirectAssignments(g, slot) == {c \in Assignments(slot) : DirectOf(c, g)}

\* Given call g assigns one of the reserved slots more than once.
AssignsTwice(g) ==
    \E slot \in {"$inputs=", "$subject="} : Cardinality(DirectAssignments(g, slot)) > 1

\* C26: a given callback is accepted only with at most one direct
\* `$inputs = expr` and at most one direct `$subject = expr`: a given that
\* assigns a slot twice is not rewritten, and no config is built by choosing
\* among the assignments.
C26_AssignedAtMostOnce ==
    \A k \in DOMAIN calls :
        (calls[k].kind = "given" /\ AssignsTwice(calls[k].node)) =>
            (step = "done" => (result # "code" /\ calls[k].node \notin DOMAIN edits))

\* A given with two direct `$inputs = expr` statements was rewritten: the
\* factory is the later one, both are removed from the body, code returned.
C26_Witness ==
    /\ step = "done"
    /\ result = "code"
    /\ \E g \in DOMAIN edits :
        /\ edits[g].callee = "__given"
        /\ Cardinality(DirectAssignments(g, "$inputs=")) = 2
        /\ "inputs" \in DOMAIN edits[g].config
        /\ \A c \in DirectAssignments(g, "$inputs=") : c <= edits[g].config["inputs"][1]
        /\ edits[g].removed = DirectAssignments(g, "$inputs=")

\* The closure of t failed on calling a factory that its context lacks.
FactoryMissing(t) == \E k \in DOMAIN log[t] : log[t][k][1] = "threw" /\ log[t][k][2] = 0

\* C27: both factories are optional in the config of a given: an it under a
\* given that lacks one does not fail because of it, and runs its modifiers,
\* its performs and its test body.
C27_FactoriesOptional ==
    \A t \in Its :
        /\ ~FactoryMissing(t)
        /\ (Settled(t) /\ \A k \in DOMAIN log[t] : log[t][k][1] # "threw")
                => (exec[t].pc = "fulfilled" /\ Last(Calls(t))[1] = "testFn")

\* An it under a given whose config has a subject factory only was called by
\* the host and rejected at ctx.inputs(), before any modifier, perform or
\* test body ran.
C27_Witness ==
    \E t \in Its :
        /\ prog[GivenOf(t)].config = {"subject"}
        /\ exec[t].pc = "rejected"
        /\ log[t] = <<<<"threw", 0, 0>>>>
        /\ Calls(t) = <<>>

\* Call n is rewritten with `__ctx` among the arguments appended to it.
EmitsCtx(n) == n \in edited /\ ~Discarded(n) /\ CtxArg \in Range(edits[n].trailing)

\* The innermost call around n whose callback was rewritten to `(__ctx) =>`
\* and holds n: the binder of a `__ctx` written at n (0: there is none).
RECURSIVE Binder(_)
Binder(n) ==
    LET q == sourceFile.nodes[n].parent
    IN  IF q = 0 THEN 0
        ELSE IF /\ q \in edited
                /\ edits[q].params = <<"__ctx">>
                /\ sourceFile.nodes[n].slot = "callback"
             THEN q
             ELSE Binder(q)

\* The innermost recognized given or when call around n (0: there is none).
RECURSIVE Scope(_)
Scope(n) ==
    LET q == sourceFile.nodes[n].parent
    IN  IF q = 0 THEN 0
        ELSE IF Recognized(q) /\ parseBddCall(sourceFile.nodes[q]).kind \in {"given", "when"}
             THEN q
             ELSE Scope(q)

\* C28: every `__ctx` the transform emits as a call argument is bound by the
\* `(__ctx) =>` parameter of a rewritten given/when callback around it, the
\* one of the innermost given/when call that encloses it, for every callback
\* shape the transform accepts.
C28_CtxBound ==
    (step = "done" /\ result = "code")
    => \A n \in AstNodes : EmitsCtx(n) => (Binder(n) # 0 /\ Binder(n) = Scope(n))

\* Code was returned in which an it carries `__ctx` while the given around
\* it, an arrow function with an expression body, kept its callback as
\* written: no `(__ctx) =>` binds the identifier.
C28_Witness ==
    /\ pass = 1
    /\ step = "done"
    /\ result = "code"
    /\ \E n \in AstNodes :
        /\ EmitsCtx(n)
        /\ sourceFile.nodes[n].name = "it"
        /\ Binder(n) = 0
        /\ Scope(n) # 0
        /\ sourceFile.nodes[Scope(n)].name = "given"
        /\ sourceFile.nodes[Scope(n)].cb = "expr"

\* The parameters of the registration function of each kind, in order
\* (runtime.ts:27-32, 44-50, 62-67), the trailing host primitive passed only
\* for a call with a modifier.
Signature(kind, modifier) ==
    (CASE kind = "given" -> <<"expr", "config", "callback">>
       [] kind = "when" -> <<"expr", "config", "callback", "__ctx">>
       [] kind = "it" -> <<"expr", "callback", "__ctx">>)
    \o (IF modifier = "none" THEN <<>> ELSE <<"mode">>)

Roles(args) == [i \in DOMAIN args |-> args[i].role]

\* C29: the arguments of every rewritten call line up with the signature of
\* the registration function it is passed to: config 2nd for __given/__when,
\* callback 3rd (2nd for __it), context right after the callback for
\* __when/__it, the mode primitive right after that; also when the call is
\* written with arguments other than the description and the callback.
C29_ArgumentsLineUp ==
    emitted.status = "rewritten"
    => Roles(emitted.arguments) = Signature(site.kind, site.modifier)

\* An it written with an argument after its callback was rewritten: the
\* context follows that argument and not the callback.
C29_Witness ==
    /\ site.kind = "it"
    /\ site.arguments = <<"expr", "block", "expr">>
    /\ emitted.status = "rewritten"
    /\ Roles(emitted.arguments) = <<"expr", "callback", "expr", "__ctx">>

\* Collected call c stands in the output where it was written, once, as a
\* call of its registration function.
Conserved(c) ==
    /\ ~Discarded(c.node)
    /\ Output.nodes[c.node] =
            [sourceFile.nodes[c.node] EXCEPT !.name = HelperOf(c.kind), !.prop = ""]

\* C30: every collected given/when/it call appears in the output exactly
\* once, where it was written, as a call of its registration function: none
\* keeps its original callee or is copied as written into a generated
\* modifier/perform function, and no edit of an inner call lies in a span
\* that the edit of an enclosing call removes.
C30_CallSitesConserved ==
    (pass = 1 /\ step = "done" /\ result = "code")
    => \A k \in DOMAIN calls : Conserved(calls[k])

\* The edits of an it were recorded, and the statement around it was then
\* moved into the perform function of the enclosing when with the text of
\* the input: the output holds the it with its original callee, inside the
\* perform function.
C30_Witness ==
    /\ pass = 1
    /\ step = "done"
    /\ result = "code"
    /\ \E k \in DOMAIN calls :
        LET c == calls[k].node
            q == sourceFile.nodes[c].parent
        IN  /\ calls[k].kind = "it"
            /\ c \in edited
            /\ edits[c].callee = "__it"
            /\ Discarded(c)
            /\ q \in InConfig
            /\ Output.nodes[q].slot = "arg"
            /\ Output.nodes[c] = sourceFile.nodes[c]

====
